---- MODULE Spec2Model ----
(***************************************************************************)
(* A model of the file-uploader backend: the auth router (signup, login,   *)
(* logout), the passport strategy and session (de)serialisation, the       *)
(* multer configuration (storage name, file filter, size limit) and the    *)
(* /api file and folder routes.  The database tables (users, files,        *)
(* folders), the uploads/ directory and the session store are the state;   *)
(* each route handler is one action.  `last' records the last request and  *)
(* the response it got, so that properties can speak about responses.      *)
(***************************************************************************)
EXTENDS Integers, Sequences, FiniteSets, TLC

\* ------------------------------------------------------------------ bounds

NSessions == 1      \* browser sessions (cookie jars) talking to the server
MaxFiles == 2       \* File rows ever created (ids 1..MaxFiles)
MaxFolders == 2     \* Folder rows ever created (ids 1..MaxFolders)
MaxTime == 1        \* Date.now() returns values in 0..MaxTime

Sessions == 1..NSessions

\* ------------------------------------------------- text as character tuples
\* File names and mime types are tuples of one-character strings, so that
\* path.extname, toLowerCase and RegExp.test are computed, not assumed.

UpperChars == <<"A","B","C","D","E","F","G","H","I","J","K","L","M",
                "N","O","P","Q","R","S","T","U","V","W","X","Y","Z">>
LowerChars == <<"a","b","c","d","e","f","g","h","i","j","k","l","m",
                "n","o","p","q","r","s","t","u","v","w","x","y","z">>

LowerChar(c) ==
    IF \E i \in 1..Len(UpperChars) : UpperChars[i] = c
    THEN LowerChars[CHOOSE i \in 1..Len(UpperChars) : UpperChars[i] = c]
    ELSE c

\* String.prototype.toLowerCase
ToLowerCase(s) == [i \in 1..Len(s) |-> LowerChar(s[i])]

\* path.extname: from the last "." of the name to its end; empty when there is
\* no "." or the only "." is the first character.
ExtName(name) ==
    LET dots == {i \in 1..Len(name) : name[i] = "."}
    IN  IF dots = {} THEN <<>>
        ELSE LET d == CHOOSE i \in dots : \A j \in dots : j <= i
             IN  IF d = 1 THEN <<>> ELSE SubSeq(name, d, Len(name))

\* s contains pat as a contiguous substring
Contains(s, pat) ==
    \E i \in 1..(Len(s) - Len(pat) + 1) : SubSeq(s, i, i + Len(pat) - 1) = pat

\* /jpeg|jpg|png|gif|pdf|txt|doc|docx/ : an unanchored alternation
AllowedTypes ==
    { <<"j","p","e","g">>, <<"j","p","g">>, <<"p","n","g">>, <<"g","i","f">>,
      <<"p","d","f">>, <<"t","x","t">>, <<"d","o","c">>, <<"d","o","c","x">> }

\* RegExp.prototype.test for that pattern
RegexTest(s) == \E alt \in AllowedTypes : Contains(s, alt)

\* fileFilter: the extension and the declared mime type must both match
FileFilter(originalname, mimetype) ==
    /\ RegexTest(ToLowerCase(ExtName(originalname)))
    /\ RegexTest(mimetype)

\* limits.fileSize
FileSizeLimit == 5 * 1024 * 1024

\* ------------------------------------------------------------ request data

ReportPdf == <<"r","e","p","o","r","t",".","p","d","f">>
NotesTxt  == <<"n","o","t","e","s",".","t","x","t">>
ToolExe   == <<"t","o","o","l",".","e","x","e">>
DataPdfx  == <<"d","a","t","a",".","p","d","f","x">>

MimePdf   == <<"a","p","p","l","i","c","a","t","i","o","n","/","p","d","f">>
MimePlain == <<"t","e","x","t","/","p","l","a","i","n">>
MimeBin   == <<"a","p","p","l","i","c","a","t","i","o","n","/",
               "o","c","t","e","t","-","s","t","r","e","a","m">>

\* The multipart bodies the clients send: the file part's declared name, its
\* declared Content-Type and its length in bytes; NoFilePart is a body
\* without a "file" field.
NoFilePart == [present |-> FALSE, originalname |-> <<>>, mimetype |-> <<>>, size |-> 0]
FilePart(n, m, sz) == [present |-> TRUE, originalname |-> n, mimetype |-> m, size |-> sz]

UploadInputs ==
    { FilePart(ReportPdf, MimePdf, 2 * 1024),
      FilePart(ReportPdf, MimePdf, 6 * 1024 * 1024),
      FilePart(NotesTxt, MimePlain, 2 * 1024),
      FilePart(ToolExe, MimeBin, 2 * 1024),
      FilePart(DataPdfx, MimePdf, FileSizeLimit),
      NoFilePart }


\* ------------------------------------------------------------- JS values
\* Values whose JavaScript type decides what a library call does.

StringVal(s) == [type |-> "string", val |-> s]
Undefined == [type |-> "undefined", val |-> ""]
\* the default export of the "passport" package: an object
PassportModule == [type |-> "object", val |-> "passport"]

\* bcryptjs hash(s, rounds): rejects unless s is a string
BcryptHash(s) ==
    IF s.type = "string"
    THEN [ok |-> TRUE, hash |-> <<"bcrypt", s.val>>, error |-> ""]
    ELSE [ok |-> FALSE, hash |-> <<>>, error |-> "Illegal arguments: object, number"]

\* bcryptjs compare(password, hash)
BcryptCompare(password, hash) == hash = <<"bcrypt", password>>

\* --------------------------------------------------------------- the state

VARIABLES
    users,        \* table User: rows [id, username, email, password]
    files,        \* table File: rows [id, name, size, path, userId, folderId]
    folders,      \* table Folder: rows [id, name, userId]
    nextFileId,   \* the File id sequence
    nextFolderId, \* the Folder id sequence
    disk,         \* uploads/: path -> content
    sessionUser,  \* session store: session -> serialized user id (0: none)
    now,          \* the value Date.now() returned last
    deleted,      \* history: ids of the files whose deletion was acknowledged
    uploader,     \* history: file id -> the user who uploaded it (rows that exist)
    pending,      \* the requests whose handler is suspended at an await
    last          \* the last request and its response

vars == <<users, files, folders, nextFileId, nextFolderId, disk, sessionUser,
          now, deleted, uploader, pending, last>>

\* The rows the database holds when the server starts.  The database is an
\* external PostgreSQL instance that outlives the process; the accounts in it
\* are the ones the clients hold credentials for.
SeedUsers ==
    { [id |-> 1, username |-> "alice", email |-> "alice@example.com",
       password |-> <<"bcrypt", "pw-alice">>],
      [id |-> 2, username |-> "bob", email |-> "bob@example.com",
       password |-> <<"bcrypt", "pw-bob">>] }

\* null / undefined where an id is expected (ids start at 1)
Null == 0
\* parseInt of a text that does not start with a digit
NaN == -1

NoRequest ==
    [op |-> "none", sess |-> 0, user |-> Null, arg |-> <<>>,
     status |-> 0, error |-> "", out |-> <<>>]

Response(op, s, user, arg, status, error, out) ==
    [op |-> op, sess |-> s, user |-> user, arg |-> arg,
     status |-> status, error |-> error, out |-> out]

Init ==
    /\ users = SeedUsers
    /\ files = {}
    /\ folders = {}
    /\ nextFileId = 1
    /\ nextFolderId = 1
    /\ disk = <<>>
    /\ sessionUser = [s \in Sessions |-> Null]
    /\ now = 0
    /\ deleted = {}
    /\ uploader = <<>>
    /\ pending = {}
    /\ last = NoRequest

\* The ids the database gives new rows: File.id and Folder.id are taken from
\* sequences (the handlers pass no id), so an id is never given twice.
NewFileId == nextFileId
NewFolderId == nextFolderId

\* ---------------------------------------------------------- identity store

\* prisma.user.findUnique({ where: { username } }): the rows found (0 or 1)
FindUserByUsername(username) == {u \in users : u.username = username}
\* prisma.user.findUnique({ where: { id } })
FindUserById(id) == {u \in users : u.id = id}

\* passport.deserializeUser + passport.session(): req.user of a request made
\* in session s, as the id of the loaded row (Null: req.user is not set)
ReqUser(s) ==
    IF FindUserById(sessionUser[s]) # {} THEN sessionUser[s] ELSE Null

\* passport.deserializeUser: the object that becomes req.user, the row that
\* findUnique returns with all its columns (none or one)
Principal(s) == FindUserById(sessionUser[s])

\* the unique indexes of User (username, email)
UniqueViolation(username, email) ==
    \E u \in users : u.username = username \/ u.email = email

\* POST /auth/signup: what the handler answers and the row it creates, if any.
\* The value hashed is the imported passport module, not the password field.
SignupAlwaysCreates(username, email, password) ==
    LET id == Cardinality(users) + 1
    IN  [status |-> 201, error |-> "", userId |-> id,
         row |-> {[id |-> id, username |-> username, email |-> email,
                   password |-> <<"bcrypt", password>>]}]
SignupResult(username, email, password) ==
    LET h == BcryptHash(PassportModule)
        id == Cardinality(users) + 1
    IN  IF ~h.ok
        THEN [status |-> 400, error |-> h.error, userId |-> Null, row |-> {}]
        ELSE IF UniqueViolation(username, email)
        THEN [status |-> 400, error |-> "Unique constraint failed",
              userId |-> Null, row |-> {}]
        ELSE [status |-> 201, error |-> "", userId |-> id,
              row |-> {[id |-> id, username |-> username, email |-> email,
                        password |-> h.hash]}]

SignupInputs ==
    { <<"carol", "carol@example.com", "pw-carol">>,
      <<"alice", "carol@example.com", "pw-carol">>,
      <<"carol", "alice@example.com", "pw-carol">> }

Signup(s, username, email, password) ==
    LET r == SignupResult(username, email, password)
    IN  /\ users' = users \cup r.row
        /\ last' = Response("signup", s, ReqUser(s),
                            [username |-> username, email |-> email,
                             password |-> password],
                            r.status, r.error, r.userId)
        /\ UNCHANGED <<files, folders, nextFileId, nextFolderId, disk,
                       sessionUser, now, deleted, uploader, pending>>

\* The LocalStrategy verify callback: done(null, user) or done(null, false, info)
Verify(username, password) ==
    LET found == FindUserByUsername(username)
    IN  IF found = {}
        THEN [ok |-> FALSE, user |-> {}, message |-> "User not found"]
        ELSE LET user == CHOOSE u \in found : TRUE
             IN  IF ~BcryptCompare(password, user.password)
                 THEN [ok |-> FALSE, user |-> {}, message |-> "Wrong password"]
                 ELSE [ok |-> TRUE, user |-> {user}, message |-> ""]

LoginInputs ==
    { <<"alice", "pw-alice">>, <<"bob", "pw-bob">>, <<"alice", "pw-bob">>,
      <<"nobody", "pw-bob">> }

\* What passport.authenticate("local") answers when the verify callback
\* fails: no failureMessage, failureFlash, failureRedirect or callback is
\* given, so the info of the callback is dropped and the answer is the status
\* text of 401.
AuthenticateFailureWithMessage(info) ==
    [status |-> 401, error |-> info.message]
AuthenticateFailure(info) ==
    [status |-> 401, error |-> "Unauthorized"]

\* POST /auth/login: passport.authenticate("local") and the handler after it,
\* as the answer and the session store after.  passport-local fails with 400
\* when a credential is missing; on success req.login serializes the user's
\* id into the session and the handler answers with req.user.
LoginResult(s, username, password) ==
    IF username = "" \/ password = ""
    THEN [status |-> 400, error |-> "Bad Request", out |-> {},
          sessionUser |-> sessionUser]
    ELSE LET v == Verify(username, password)
         IN  IF ~v.ok
             THEN [status |-> AuthenticateFailure(v).status,
                   error |-> AuthenticateFailure(v).error, out |-> {},
                   sessionUser |-> sessionUser]
             ELSE LET user == CHOOSE u \in v.user : TRUE
                  IN  [status |-> 200, error |-> "", out |-> {user},
                       sessionUser |-> [sessionUser EXCEPT ![s] = user.id]]

Login(s, username, password) ==
    LET r == LoginResult(s, username, password)
    IN  /\ sessionUser' = r.sessionUser
        /\ last' = Response("login", s, ReqUser(s),
                            [username |-> username, password |-> password],
                            r.status, r.error, r.out)
        /\ UNCHANGED <<users, files, folders, nextFileId, nextFolderId, disk,
                       now, deleted, uploader, pending>>

\* POST /auth/logout: req.logout removes the user from the session
LogoutKeepsSession(s) ==
    /\ last' = Response("logout", s, ReqUser(s), <<>>, 200, "", {})
    /\ UNCHANGED <<users, files, folders, nextFileId, nextFolderId, disk,
                   sessionUser, now, deleted, uploader, pending>>
Logout(s) ==
    /\ sessionUser' = [sessionUser EXCEPT ![s] = Null]
    /\ last' = Response("logout", s, ReqUser(s), <<>>, 200, "", {})
    /\ UNCHANGED <<users, files, folders, nextFileId, nextFolderId, disk, now,
                   deleted, uploader, pending>>

\* GET /auth/me: the router mounted at /auth has the routes POST /signup,
\* POST /login and POST /logout, and no later middleware of the app matches
\* the path, so express answers with its final handler.
GetAuthMe(s) ==
    /\ last' = Response("me", s, ReqUser(s), <<>>, 404, "Cannot GET /auth/me", {})
    /\ UNCHANGED <<users, files, folders, nextFileId, nextFolderId, disk,
                   sessionUser, now, deleted, uploader, pending>>

\* ------------------------------------------------------------ object store

\* multer.diskStorage: destination uploads/, filename `${Date.now()}-${originalname}`
StoragePath(time, originalname) ==
    [dir |-> "uploads/", time |-> time, name |-> originalname]

\* fs.existsSync
ExistsSync(path) == path \in DOMAIN disk

\* the directory after a write stream to path was written and closed
WriteFile(d, path, content) ==
    [p \in (DOMAIN d) \cup {path} |-> IF p = path THEN content ELSE d[p]]

\* fs.unlinkSync / fs.unlink
Unlink(d, path) == [p \in (DOMAIN d) \ {path} |-> d[p]]

\* What multer makes of a file part that passed the filter, by its length:
\* "stored", or "too_large" (LIMIT_FILE_SIZE).  A part longer than the limit is
\* cut off and refused.  A part of exactly limits.fileSize bytes is stored or
\* refused depending on the busboy release multer was installed with (1.x
\* raises the limit event when the byte count reaches the limit, 0.x when it
\* exceeds it), so both outcomes are possible.
SizeOutcomes(size) ==
    IF size > FileSizeLimit THEN {"too_large"}
    ELSE IF size = FileSizeLimit THEN {"stored", "too_large"}
    ELSE {"stored"}

\* the bytes a user uploads, identified by who sent them
ContentOf(user) == user

\* ----------------------------------------------------------------- catalog

\* requireAuth: next() is called only when req.user is set
RequireAuthNone(s) == TRUE
RequireAuth(s) == ReqUser(s) # Null

Unauthenticated(op, s, arg) ==
    /\ last' = Response(op, s, Null, arg, 401, "Not authenticated", {})
    /\ UNCHANGED <<users, files, folders, nextFileId, nextFolderId, disk,
                   sessionUser, now, deleted, uploader, pending>>

\* prisma.file.findFirst({ where: { id, userId } }): the rows found (0 or 1)
FindFirstAnyOwner(id, userId) == {f \in files : f.id = id}
FindFirst(id, userId) == {f \in files : f.id = id /\ f.userId = userId}

\* prisma.file.findMany({ where: { userId } })
FindManyFilesAll(userId) == files
FindManyFiles(userId) == {f \in files : f.userId = userId}

\* prisma.folder.findMany({ where: { userId }, include: { files: true } })
FindManyFolders(userId) ==
    { [id |-> d.id, name |-> d.name, userId |-> d.userId,
       files |-> {f \in files : f.folderId = d.id}] :
      d \in {x \in folders : x.userId = userId} }

\* parseInt of a route or body parameter: a parameter is a decimal numeral
\* (num, its value) or some other text
ParseInt(p) == IF p.kind = "numeral" THEN p.val ELSE NaN
Numeral(n) == [kind |-> "numeral", val |-> n]
Text == [kind |-> "text", val |-> 0]
JsonNull == [kind |-> "null", val |-> 0]

\* JavaScript truthiness of a body field: null and undefined are falsy
Truthy(p) == p.kind # "null"

\* What is left of an upload's bytes when the write stream fails after it
\* has written some of them (a negative number: a cut-off copy)
Truncated(content) == 0 - content

\* multer's disk storage handling the file part at path: what becomes of the
\* directory and whether multer goes on to the handler (ok) or to the error
\* handler (error).  outcome is what happens to the write: "stored";
\* "too_large", the limit is hit and multer removes what it wrote;
\* "write_error", the stream cannot be opened; "write_cut", the stream fails
\* after some bytes and what it wrote stays (the storage removes nothing and
\* multer removes only the files it had finished).
MulterWrite(d, path, outcome, content) ==
    IF outcome = "stored"
    THEN [ok |-> TRUE, error |-> "", disk |-> WriteFile(d, path, content)]
    ELSE IF outcome = "too_large"
    THEN [ok |-> FALSE, error |-> "File too large. Maximum size is 5MB",
          disk |-> Unlink(d, path)]
    ELSE IF outcome = "write_cut"
    THEN [ok |-> FALSE, error |-> "ENOSPC: no space left on device, write",
          disk |-> WriteFile(d, path, Truncated(content))]
    ELSE [ok |-> FALSE, error |-> "ENOENT: no such file or directory, open",
          disk |-> d]

\* the outcomes of a write of a part of the given length, failures of the
\* file system included
WriteOutcomes(size) == SizeOutcomes(size) \cup {"write_error", "write_cut"}

\* POST /api/upload: requireAuth, upload.single("file"), the handler, and the
\* router's error handler for what multer refuses.  t is what Date.now()
\* returns when the storage names the file: the last value or a later one
\* (the clock is read nowhere else, so time passing between requests shows
\* only here).  dbOk: the database can be reached when prisma.file.create
\* runs; if not, the catch block answers 500.
UploadHandler(s, part, outcome, t, dbOk) ==
    /\ nextFileId <= MaxFiles
    /\ outcome \in WriteOutcomes(part.size)
    /\ t \in now..MaxTime
    /\ IF ~RequireAuth(s) THEN Unauthenticated("upload", s, part)
       ELSE IF ~part.present
       THEN /\ last' = Response("upload", s, ReqUser(s), part,
                                400, "No file uploaded", {})
            /\ UNCHANGED <<users, files, folders, nextFileId, nextFolderId,
                           disk, sessionUser, now, deleted, uploader, pending>>
       ELSE IF ~FileFilter(part.originalname, part.mimetype)
       THEN /\ last' = Response("upload", s, ReqUser(s), part, 400,
                                "Only images, PDFs, and documents allowed!", {})
            /\ UNCHANGED <<users, files, folders, nextFileId, nextFolderId,
                           disk, sessionUser, now, deleted, uploader, pending>>
       ELSE LET path == StoragePath(t, part.originalname)
                w == MulterWrite(disk, path, outcome, ContentOf(ReqUser(s)))
                file == [id |-> NewFileId,
                         name |-> part.originalname,
                         size |-> ToString(part.size),
                         path |-> path,
                         userId |-> ReqUser(s),
                         folderId |-> Null]
            IN  /\ disk' = w.disk
                /\ now' = t
                /\ IF ~w.ok
                   THEN /\ last' = Response("upload", s, ReqUser(s), part, 400,
                                            w.error, {})
                        /\ UNCHANGED <<users, files, folders, nextFileId,
                                       nextFolderId, sessionUser, deleted,
                                       uploader, pending>>
                   ELSE IF ~dbOk
                   THEN /\ last' = Response("upload", s, ReqUser(s), part, 500,
                                            "Can't reach database server", {})
                        /\ UNCHANGED <<users, files, folders, nextFileId,
                                       nextFolderId, sessionUser, deleted,
                                       uploader, pending>>
                   ELSE /\ files' = files \cup {file}
                        /\ nextFileId' = nextFileId + 1
                        /\ last' = Response("upload", s, ReqUser(s), part,
                                            201, "", {file})
                        /\ uploader' = [i \in (DOMAIN uploader) \cup {NewFileId} |->
                                           IF i = NewFileId THEN ReqUser(s)
                                           ELSE uploader[i]]
                        /\ UNCHANGED <<users, folders, nextFolderId,
                                       sessionUser, deleted, pending>>

\* an upload while the file system and the database work
Upload(s, part, outcome, t) ==
    /\ outcome \in SizeOutcomes(part.size)
    /\ UploadHandler(s, part, outcome, t, TRUE)

\* GET /api/files
ListFiles(s) ==
    IF ~RequireAuth(s) THEN Unauthenticated("listFiles", s, <<>>)
    ELSE /\ last' = Response("listFiles", s, ReqUser(s), <<>>, 200, "",
                             FindManyFiles(ReqUser(s)))
         /\ UNCHANGED <<users, files, folders, nextFileId, nextFolderId, disk,
                        sessionUser, now, deleted, uploader, pending>>

FolderNames == {StringVal("Work"), Undefined}

\* POST /api/folders: prisma.folder.create refuses a name that is not a string
CreateFolder(s, name) ==
    /\ nextFolderId <= MaxFolders
    /\ IF ~RequireAuth(s) THEN Unauthenticated("createFolder", s, name)
       ELSE IF name.type # "string"
       THEN /\ last' = Response("createFolder", s, ReqUser(s), name, 400,
                                "Argument name is missing", {})
            /\ UNCHANGED <<users, files, folders, nextFileId, nextFolderId,
                           disk, sessionUser, now, deleted, uploader, pending>>
       ELSE LET folder == [id |-> NewFolderId, name |-> name.val,
                           userId |-> ReqUser(s)]
            IN  /\ folders' = folders \cup {folder}
                /\ nextFolderId' = nextFolderId + 1
                /\ last' = Response("createFolder", s, ReqUser(s), name,
                                    201, "", {folder})
                /\ UNCHANGED <<users, files, nextFileId, disk, sessionUser,
                               now, deleted, uploader, pending>>

\* GET /api/folders
ListFolders(s) ==
    IF ~RequireAuth(s) THEN Unauthenticated("listFolders", s, <<>>)
    ELSE /\ last' = Response("listFolders", s, ReqUser(s), <<>>, 200, "",
                             FindManyFolders(ReqUser(s)))
         /\ UNCHANGED <<users, files, folders, nextFileId, nextFolderId, disk,
                        sessionUser, now, deleted, uploader, pending>>


\* the foreign key File.folderId -> Folder.id
ForeignKeyOk(folderId) ==
    folderId = Null \/ \E d \in folders : d.id = folderId

\* data: { folderId }: the row the update makes of row f; folderId is the
\* only column written
MoveDataWithOwner(f, folderId) ==
    [f EXCEPT !.folderId = folderId,
              !.userId = IF \E d \in folders : d.id = folderId
                         THEN (CHOOSE d \in folders : d.id = folderId).userId
                         ELSE f.userId]
MoveData(f, folderId) == [f EXCEPT !.folderId = folderId]

\* prisma.file.update({ where: { id }, data: { folderId } }): the table after
UpdateFolderIdNot(id, folderId) == files
UpdateFolderId(id, folderId) ==
    { IF f.id = id THEN MoveData(f, folderId) ELSE f : f \in files }

\* prisma.file.delete({ where: { id } }): the table after
DeleteRowNot(id) == files
DeleteRow(id) == {f \in files : f.id # id}

\* await prisma.file.update(...) inside the handler's try block: the table
\* after, or the error it throws for a folderId that names no Folder (nothing
\* is written then)
FileUpdateUnchecked(id, folderId) ==
    [ok |-> TRUE, error |-> "", files |-> UpdateFolderId(id, folderId)]
FileUpdate(id, folderId) ==
    IF ~ForeignKeyOk(folderId)
    THEN [ok |-> FALSE, error |-> "Foreign key constraint failed",
          files |-> files]
    ELSE [ok |-> TRUE, error |-> "", files |-> UpdateFolderId(id, folderId)]

ServerError(op, s, arg, message) ==
    /\ last' = Response(op, s, ReqUser(s), arg, 500, message, {})
    /\ UNCHANGED <<users, files, folders, nextFileId, nextFolderId, disk,
                   sessionUser, now, deleted, uploader, pending>>

NotFound(op, s, arg, message) ==
    /\ last' = Response(op, s, ReqUser(s), arg, 404, message, {})
    /\ UNCHANGED <<users, files, folders, nextFileId, nextFolderId, disk,
                   sessionUser, now, deleted, uploader, pending>>

FileIdParams == {Numeral(n) : n \in 1..MaxFiles} \cup {Text}
FolderIdParams == {Numeral(n) : n \in 1..MaxFolders} \cup {JsonNull}

\* PATCH /api/files/:fileId/move
Move(s, fileId, folderId) ==
    LET arg == [fileId |-> fileId, folderId |-> folderId]
        id == ParseInt(fileId)
        target == IF Truthy(folderId) THEN ParseInt(folderId) ELSE Null
    IN  IF ~RequireAuth(s) THEN Unauthenticated("move", s, arg)
        ELSE IF id = NaN
        THEN ServerError("move", s, arg, "Invalid value for argument id")
        ELSE IF FindFirst(id, ReqUser(s)) = {}
        THEN NotFound("move", s, arg, "File not found")
        ELSE IF ~FileUpdate(id, target).ok
        THEN ServerError("move", s, arg, FileUpdate(id, target).error)
        ELSE /\ files' = FileUpdate(id, target).files
             /\ last' = Response("move", s, ReqUser(s), arg, 200, "",
                                 {f \in files' : f.id = id})
             /\ UNCHANGED <<users, folders, nextFileId, nextFolderId, disk,
                            sessionUser, now, deleted, uploader, pending>>

\* The content step of delete: if (fs.existsSync(path)) fs.unlinkSync(path).
\* unlinkSync on a path that does not exist throws ENOENT, which is why the
\* handler looks first.  ok: the step did not throw; unlinked: it removed
\* something; disk: the directory after.
RemoveContentUnguarded(d, path) ==
    IF path \in DOMAIN d
    THEN [ok |-> TRUE, unlinked |-> TRUE, disk |-> Unlink(d, path)]
    ELSE [ok |-> FALSE, unlinked |-> FALSE, disk |-> d]
RemoveContent(d, path) ==
    IF path \in DOMAIN d
    THEN [ok |-> TRUE, unlinked |-> TRUE, disk |-> Unlink(d, path)]
    ELSE [ok |-> TRUE, unlinked |-> FALSE, disk |-> d]

\* DELETE /api/files/:fileId.  The answer carries only a message; out records
\* whether the content step found something to remove.
Delete(s, fileId) ==
    LET arg == [fileId |-> fileId]
        id == ParseInt(fileId)
        found == FindFirst(id, ReqUser(s))
    IN  IF ~RequireAuth(s) THEN Unauthenticated("delete", s, arg)
        ELSE IF id = NaN
        THEN ServerError("delete", s, arg, "Invalid value for argument id")
        ELSE IF found = {}
        THEN NotFound("delete", s, arg, "File not found")
        ELSE LET file == CHOOSE f \in found : TRUE
                 rc == RemoveContent(disk, file.path)
             IN  IF ~rc.ok
                 THEN ServerError("delete", s, arg, "ENOENT: no such file or directory")
                 ELSE /\ disk' = rc.disk
                      /\ files' = DeleteRow(id)
                      /\ deleted' = deleted \cup {id}
                      /\ uploader' = [i \in (DOMAIN uploader) \ {id} |-> uploader[i]]
                      /\ last' = Response("delete", s, ReqUser(s), arg, 200, "",
                                          {[unlinked |-> rc.unlinked]})
                      /\ UNCHANGED <<users, folders, nextFileId, nextFolderId,
                                     sessionUser, now, pending>>

\* GET /api/files/:fileId/download: the answer (a pure read)
DownloadResult(user, id) ==
    LET found == FindFirst(id, user)
    IN  IF found = {}
        THEN [status |-> 404, error |-> "File not found", out |-> {}]
        ELSE LET file == CHOOSE f \in found : TRUE
             IN  IF ~ExistsSync(file.path)
                 THEN [status |-> 404, error |-> "File not found on server",
                       out |-> {}]
                 ELSE [status |-> 200, error |-> "",
                       out |-> {[content |-> disk[file.path],
                                 name |-> file.name]}]

Download(s, fileId) ==
    LET arg == [fileId |-> fileId]
        id == ParseInt(fileId)
        r == DownloadResult(ReqUser(s), id)
    IN  IF ~RequireAuth(s) THEN Unauthenticated("download", s, arg)
        ELSE IF id = NaN
        THEN ServerError("download", s, arg, "Invalid value for argument id")
        ELSE /\ last' = Response("download", s, ReqUser(s), arg,
                                 r.status, r.error, r.out)
             /\ UNCHANGED <<users, files, folders, nextFileId, nextFolderId,
                            disk, sessionUser, now, deleted, uploader,
                            pending>>

Next ==
    \/ \E s \in Sessions, c \in SignupInputs : Signup(s, c[1], c[2], c[3])
    \/ \E s \in Sessions, c \in LoginInputs : Login(s, c[1], c[2])
    \/ \E s \in Sessions : Logout(s)
    \/ \E s \in Sessions : GetAuthMe(s)
    \/ \E s \in Sessions, part \in UploadInputs, o \in {"stored", "too_large"},
          t \in 0..MaxTime : Upload(s, part, o, t)
    \/ \E s \in Sessions : ListFiles(s)
    \/ \E s \in Sessions, n \in FolderNames : CreateFolder(s, n)
    \/ \E s \in Sessions : ListFolders(s)
    \/ \E s \in Sessions, f \in FileIdParams, d \in FolderIdParams :
          Move(s, f, d)
    \/ \E s \in Sessions, f \in FileIdParams : Delete(s, f)
    \/ \E s \in Sessions, f \in FileIdParams : Download(s, f)

Spec == Init /\ [][Next]_vars

\* The folder names of Next and the empty string (express.json() passes any
\* JSON string of the body on as it is).
AllFolderNames == FolderNames \cup {StringVal("")}

\* The server under requests that dwell on folders: every name for
\* createFolder, one file part for upload.
NextNames ==
    \/ \E s \in Sessions, c \in LoginInputs : Login(s, c[1], c[2])
    \/ \E s \in Sessions : Logout(s)
    \/ \E s \in Sessions, n \in AllFolderNames : CreateFolder(s, n)
    \/ \E s \in Sessions : ListFolders(s)
    \/ \E s \in Sessions, t \in 0..MaxTime :
          Upload(s, FilePart(ReportPdf, MimePdf, 2 * 1024), "stored", t)
    \/ \E s \in Sessions, f \in FileIdParams, d \in FolderIdParams :
          Move(s, f, d)

SpecNames == Init /\ [][NextNames]_vars

\* The server while the file system or the database may fail during an
\* upload.
NextFaults ==
    \/ \E s \in Sessions, c \in LoginInputs : Login(s, c[1], c[2])
    \/ \E s \in Sessions, t \in 0..MaxTime, dbOk \in BOOLEAN,
          o \in {"stored", "write_error", "write_cut"} :
          UploadHandler(s, FilePart(ReportPdf, MimePdf, 2 * 1024), o, t, dbOk)
    \/ \E s \in Sessions : ListFiles(s)
    \/ \E s \in Sessions, f \in FileIdParams : Delete(s, f)
    \/ \E s \in Sessions, f \in FileIdParams : Download(s, f)

SpecFaults == Init /\ [][NextFaults]_vars

\* ------------------------------------------- handlers suspended at an await

\* How many requests are in flight at once
MaxPending == 2

\* the in-flight requests are numbered; a new one takes the least free number
FreeReqs == (1..MaxPending) \ {r.req : r \in pending}
NewReq == CHOOSE n \in FreeReqs : \A m \in FreeReqs : n <= m

\* DELETE /api/files/:fileId up to its first await: requireAuth, parseInt and
\* the findFirst that the database answers.  A request that found its row
\* stays in flight.
DeleteFind(s, fileId) ==
    LET arg == [fileId |-> fileId]
        id == ParseInt(fileId)
        found == FindFirst(id, ReqUser(s))
    IN  /\ FreeReqs # {}
        /\ IF ~RequireAuth(s) THEN Unauthenticated("delete", s, arg)
           ELSE IF id = NaN
           THEN ServerError("delete", s, arg, "Invalid value for argument id")
           ELSE IF found = {}
           THEN NotFound("delete", s, arg, "File not found")
           ELSE /\ pending' = pending \cup
                       {[req |-> NewReq, op |-> "delete", sess |-> s,
                         user |-> ReqUser(s), arg |-> arg,
                         file |-> CHOOSE f \in found : TRUE,
                         pc |-> "found", unlinked |-> FALSE, target |-> Null]}
                /\ UNCHANGED <<users, files, folders, nextFileId, nextFolderId,
                               disk, sessionUser, now, deleted, uploader, last>>

\* The handler resumed with the row: the content step, then
\* prisma.file.delete is sent to the database and the handler awaits it.
DeleteUnlink(n) ==
    \E r \in pending :
    LET rc == RemoveContent(disk, r.file.path)
    IN  /\ r.req = n
        /\ r.pc = "found"
        /\ IF ~rc.ok
           THEN /\ pending' = pending \ {r}
                /\ last' = Response("delete", r.sess, r.user, r.arg, 500,
                                    "ENOENT: no such file or directory", {})
                /\ UNCHANGED <<users, files, folders, nextFileId, nextFolderId,
                               disk, sessionUser, now, deleted, uploader>>
           ELSE /\ disk' = rc.disk
                /\ pending' = (pending \ {r}) \cup
                       {[r EXCEPT !.pc = "deleting", !.unlinked = rc.unlinked]}
                /\ UNCHANGED <<users, files, folders, nextFileId, nextFolderId,
                               sessionUser, now, deleted, uploader, last>>

\* The database executes the delete, or cannot be reached (dbOk = FALSE), and
\* the handler answers: 200, or 500 from the catch block.  A delete of a row
\* that is no longer there is refused by prisma (P2025).
DeleteCommit(n, dbOk) ==
    \E r \in pending :
    /\ r.req = n
    /\ r.pc = "deleting"
    /\ pending' = pending \ {r}
    /\ IF ~dbOk
       THEN /\ last' = Response("delete", r.sess, r.user, r.arg, 500,
                                "Can't reach database server",
                                {[unlinked |-> r.unlinked]})
            /\ UNCHANGED <<users, files, folders, nextFileId, nextFolderId,
                           disk, sessionUser, now, deleted, uploader>>
       ELSE IF ~\E f \in files : f.id = r.file.id
       THEN /\ last' = Response("delete", r.sess, r.user, r.arg, 500,
                                "Record to delete does not exist",
                                {[unlinked |-> r.unlinked]})
            /\ UNCHANGED <<users, files, folders, nextFileId, nextFolderId,
                           disk, sessionUser, now, deleted, uploader>>
       ELSE /\ files' = DeleteRow(r.file.id)
            /\ deleted' = deleted \cup {r.file.id}
            /\ uploader' = [i \in (DOMAIN uploader) \ {r.file.id} |-> uploader[i]]
            /\ last' = Response("delete", r.sess, r.user, r.arg, 200, "",
                                {[unlinked |-> r.unlinked]})
            /\ UNCHANGED <<users, folders, nextFileId, nextFolderId, disk,
                           sessionUser, now>>

\* PATCH /api/files/:fileId/move up to its first await: requireAuth, parseInt
\* and the findFirst that the database answers.  A request that found its row
\* stays in flight with the update still to be executed.
MoveFind(s, fileId, folderId) ==
    LET arg == [fileId |-> fileId, folderId |-> folderId]
        id == ParseInt(fileId)
        target == IF Truthy(folderId) THEN ParseInt(folderId) ELSE Null
        found == FindFirst(id, ReqUser(s))
    IN  /\ FreeReqs # {}
        /\ IF ~RequireAuth(s) THEN Unauthenticated("move", s, arg)
           ELSE IF id = NaN
           THEN ServerError("move", s, arg, "Invalid value for argument id")
           ELSE IF found = {}
           THEN NotFound("move", s, arg, "File not found")
           ELSE /\ pending' = pending \cup
                       {[req |-> NewReq, op |-> "move", sess |-> s,
                         user |-> ReqUser(s), arg |-> arg,
                         file |-> CHOOSE f \in found : TRUE,
                         pc |-> "updating", unlinked |-> FALSE,
                         target |-> target]}
                /\ UNCHANGED <<users, files, folders, nextFileId, nextFolderId,
                               disk, sessionUser, now, deleted, uploader, last>>

\* The database executes the update and the handler answers: 200 with the
\* updated row, or 500 from the catch block.  An update of a row that is no
\* longer there is refused by prisma (P2025).
MoveCommit(n) ==
    \E r \in pending :
    /\ r.req = n
    /\ r.pc = "updating"
    /\ pending' = pending \ {r}
    /\ IF ~\E f \in files : f.id = r.file.id
       THEN /\ last' = Response("move", r.sess, r.user, r.arg, 500,
                                "Record to update not found", {})
            /\ UNCHANGED <<users, files, folders, nextFileId, nextFolderId,
                           disk, sessionUser, now, deleted, uploader>>
       ELSE IF ~FileUpdate(r.file.id, r.target).ok
       THEN /\ last' = Response("move", r.sess, r.user, r.arg, 500,
                                FileUpdate(r.file.id, r.target).error, {})
            /\ UNCHANGED <<users, files, folders, nextFileId, nextFolderId,
                           disk, sessionUser, now, deleted, uploader>>
       ELSE /\ files' = FileUpdate(r.file.id, r.target).files
            /\ last' = Response("move", r.sess, r.user, r.arg, 200, "",
                                {f \in files' : f.id = r.file.id})
            /\ UNCHANGED <<users, folders, nextFileId, nextFolderId, disk,
                           sessionUser, now, deleted, uploader>>

\* POST /api/upload up to the handler's await: requireAuth, then multer names
\* and writes the file; the handler has called prisma.file.create and awaits
\* it.  The rows created and those still to be created are at most MaxFiles.
UploadWrite(s, part, outcome, t) ==
    /\ nextFileId + Cardinality({r \in pending : r.op = "upload"}) <= MaxFiles
    /\ FreeReqs # {}
    /\ outcome \in SizeOutcomes(part.size)
    /\ t \in now..MaxTime
    /\ IF ~RequireAuth(s) THEN Unauthenticated("upload", s, part)
       ELSE IF ~part.present
       THEN /\ last' = Response("upload", s, ReqUser(s), part,
                                400, "No file uploaded", {})
            /\ UNCHANGED <<users, files, folders, nextFileId, nextFolderId,
                           disk, sessionUser, now, deleted, uploader, pending>>
       ELSE IF ~FileFilter(part.originalname, part.mimetype)
       THEN /\ last' = Response("upload", s, ReqUser(s), part, 400,
                                "Only images, PDFs, and documents allowed!", {})
            /\ UNCHANGED <<users, files, folders, nextFileId, nextFolderId,
                           disk, sessionUser, now, deleted, uploader, pending>>
       ELSE LET path == StoragePath(t, part.originalname)
                w == MulterWrite(disk, path, outcome, ContentOf(ReqUser(s)))
            IN  /\ disk' = w.disk
                /\ now' = t
                /\ IF ~w.ok
                   THEN /\ last' = Response("upload", s, ReqUser(s), part, 400,
                                            w.error, {})
                        /\ UNCHANGED <<users, files, folders, nextFileId,
                                       nextFolderId, sessionUser, deleted,
                                       uploader, pending>>
                   ELSE /\ pending' = pending \cup
                               {[req |-> NewReq, op |-> "upload", sess |-> s,
                                 user |-> ReqUser(s), arg |-> part,
                                 file |-> [id |-> Null,
                                           name |-> part.originalname,
                                           size |-> ToString(part.size),
                                           path |-> path,
                                           userId |-> ReqUser(s),
                                           folderId |-> Null],
                                 pc |-> "creating", unlinked |-> FALSE,
                                 target |-> Null]}
                        /\ UNCHANGED <<users, files, folders, nextFileId,
                                       nextFolderId, sessionUser, deleted,
                                       uploader, last>>

\* The database executes the create, the row gets its id, and the handler
\* answers 201.
UploadCreate(n) ==
    \E r \in pending :
    LET file == [r.file EXCEPT !.id = NewFileId]
    IN  /\ r.req = n
        /\ r.pc = "creating"
        /\ pending' = pending \ {r}
        /\ files' = files \cup {file}
        /\ nextFileId' = nextFileId + 1
        /\ last' = Response("upload", r.sess, r.user, r.arg, 201, "", {file})
        /\ uploader' = [i \in (DOMAIN uploader) \cup {NewFileId} |->
                           IF i = NewFileId THEN r.user ELSE uploader[i]]
        /\ UNCHANGED <<users, folders, nextFolderId, disk, sessionUser, now,
                       deleted>>

\* The parts uploaded while requests interleave
ConcParts ==
    { FilePart(ReportPdf, MimePdf, 2 * 1024),
      FilePart(ReportPdf, MimePdf, 6 * 1024 * 1024) }

\* The server with the upload, move and delete handlers taken await by await,
\* so that other requests are served while one is in flight.
NextConc ==
    \/ \E s \in Sessions, c \in LoginInputs : Login(s, c[1], c[2])
    \/ \E s \in Sessions, part \in ConcParts, o \in {"stored", "too_large"},
          t \in 0..MaxTime : UploadWrite(s, part, o, t)
    \/ \E n \in 1..MaxPending : UploadCreate(n)
    \/ \E s \in Sessions, f \in FileIdParams : MoveFind(s, f, JsonNull)
    \/ \E n \in 1..MaxPending : MoveCommit(n)
    \/ \E s \in Sessions : ListFiles(s)
    \/ \E s \in Sessions, f \in FileIdParams : Download(s, f)
    \/ \E s \in Sessions, f \in FileIdParams : DeleteFind(s, f)
    \/ \E n \in 1..MaxPending : DeleteUnlink(n)
    \/ \E n \in 1..MaxPending, dbOk \in BOOLEAN : DeleteCommit(n, dbOk)

SpecConc == Init /\ [][NextConc]_vars


\* ----------------------------------------------------------------- claims

UserIds == {u.id : u \in users}
ApiOps == {"upload", "listFiles", "createFolder", "listFolders", "move",
           "delete", "download"}

\* C1: every File whose folderId is set references a Folder of the File's own
\* owner.  (As claimed; the move handler never looks at the target
\* folder's owner.)
C1_FolderOwnerMatches ==
    \A f \in files :
        f.folderId # Null =>
            \E d \in folders : d.id = f.folderId /\ d.userId = f.userId

\* C2: listFiles called as B never includes a file that another user A
\* uploaded: in every state, for every user B, the rows GET /api/files selects
\* for B were all uploaded by B, and so were the rows of the answer a
\* listFiles request just got.
C2_ListFilesIsolation ==
    /\ \A b \in UserIds : \A f \in FindManyFiles(b) : uploader[f.id] = b
    /\ (last.op = "listFiles" /\ last.status = 200) =>
           \A f \in last.out : f.id \in DOMAIN uploader => uploader[f.id] = last.user

\* C2 witness: a user listed files and got some, while another user's file
\* was stored.
C2_Witness ==
    /\ last.op = "listFiles"
    /\ last.status = 200
    /\ last.out # {}
    /\ \E f \in files : f.userId # last.user /\ f \notin last.out

\* C3: no request of a principal other than a file's owner changes the file's
\* row (its folder membership or its existence), removes its stored content,
\* or is answered with its content.  (As claimed; the code does not satisfy it.)
C3_OnlyOwnerActs ==
    [][\A f \in files :
          (last'.op \in ApiOps /\ last'.user # f.userId) =>
              /\ f \in files'
              /\ ExistsSync(f.path) => ExistsSync(f.path)'
              /\ ~(/\ last'.op = "download"
                   /\ last'.status = 200
                   /\ ParseInt(last'.arg.fileId) = f.id)]_vars

\* C4: once a deleteFile of a file was acknowledged, every download of that id
\* by any user is answered 404 and no user's listFiles includes it, in every
\* later state and for every later request.
C4_DeletedStaysGone ==
    /\ [](\A id \in deleted : \A u \in UserIds :
             /\ DownloadResult(u, id).status = 404
             /\ \A f \in FindManyFiles(u) : f.id # id)
    /\ [][\A id \in deleted :
             /\ (/\ last'.op = "download"
                 /\ last'.user # Null
                 /\ ParseInt(last'.arg.fileId) = id) => last'.status = 404
             /\ (last'.op = "listFiles" /\ last'.status = 200) =>
                    \A f \in last'.out : f.id # id]_vars

\* C4 witness: a file was deleted, another upload followed, and a download of
\* the deleted id by a logged-in user was answered "File not found".
C4_Witness ==
    /\ last.op = "download"
    /\ last.status = 404
    /\ last.user # Null
    /\ ParseInt(last.arg.fileId) \in deleted
    /\ \E f \in files : f.id > ParseInt(last.arg.fileId)

\* C5: a signup with a username and an email not yet taken is answered 201
\* with a user id, and afterwards verify with the same username and password
\* succeeds with the user of that id.  (As claimed; the code does not satisfy it.)
C5_RegisterThenVerify ==
    [][\A c \in SignupInputs :
          (/\ last'.op = "signup"
           /\ last'.arg = [username |-> c[1], email |-> c[2], password |-> c[3]]
           /\ ~UniqueViolation(c[1], c[2])) =>
              /\ last'.status = 201
              /\ Verify(c[1], c[3])'.ok
              /\ \A u \in Verify(c[1], c[3])'.user : u.id = last'.out]_vars

C7_UnauthenticatedRejected ==
    [][(last'.op \in ApiOps /\ ReqUser(last'.sess) = Null) =>
           /\ last'.status = 401
           /\ last'.error = "Not authenticated"
           /\ UNCHANGED <<files, folders, disk, nextFileId, nextFolderId>>]_vars

\* C7 witness: a delete of a stored file, sent without a login, was answered
\* 401.
C7_Witness ==
    /\ last.op = "delete"
    /\ last.status = 401
    /\ \E f \in files : Numeral(f.id) = last.arg.fileId
    /\ ReqUser(last.sess) = Null

\* C8: a move, delete or download by an authenticated principal of a file id
\* that names no row is answered exactly as one of a file id that names
\* another user's row: 404 "File not found" with no payload, and no File row,
\* Folder row or stored content changes.
C8_NotFoundIndistinguishable ==
    [][(/\ last'.op \in {"move", "delete", "download"}
        /\ last'.user # Null
        /\ ParseInt(last'.arg.fileId) # NaN
        /\ \/ ~\E f \in files : f.id = ParseInt(last'.arg.fileId)
           \/ \E f \in files : /\ f.id = ParseInt(last'.arg.fileId)
                                /\ f.userId # last'.user) =>
           /\ last'.status = 404
           /\ last'.error = "File not found"
           /\ last'.out = {}
           /\ UNCHANGED <<files, folders, disk>>]_vars

\* C8 witness: a delete of another user's stored file was answered 404.
C8_Witness ==
    /\ last.op = "delete"
    /\ last.status = 404
    /\ last.user # Null
    /\ \E f \in files : /\ Numeral(f.id) = last.arg.fileId
                         /\ f.userId # last.user
                         /\ ExistsSync(f.path)

\* C9: a move of an own file into an own folder is answered 200 and then
\* listFolders shows the file under exactly that folder; a move of an own file
\* to null is answered 200 and then listFolders shows the file under no folder
\* while listFiles still includes it.
C9_MoveThenList ==
    [][\A f \in files :
          (/\ last'.op = "move"
           /\ last'.user # Null
           /\ last'.user = f.userId
           /\ ParseInt(last'.arg.fileId) = f.id) =>
              /\ \A d \in folders :
                    (d.userId = f.userId /\ last'.arg.folderId = Numeral(d.id)) =>
                        /\ last'.status = 200
                        /\ \E g \in FindManyFolders(f.userId)' : g.id = d.id
                        /\ \A g \in FindManyFolders(f.userId)' :
                              (\E x \in g.files : x.id = f.id) <=> g.id = d.id
              /\ last'.arg.folderId = JsonNull =>
                    /\ last'.status = 200
                    /\ \A g \in FindManyFolders(f.userId)' :
                          ~\E x \in g.files : x.id = f.id
                    /\ \E x \in FindManyFiles(f.userId)' : x.id = f.id]_vars

\* C9 witness: a move into an own folder was answered 200 and the file is in
\* that folder.
C9_Witness ==
    /\ last.op = "move"
    /\ last.status = 200
    /\ last.arg.folderId # JsonNull
    /\ \E f \in files, d \in folders :
          /\ Numeral(f.id) = last.arg.fileId
          /\ f.folderId = d.id
          /\ d.userId = last.user
          /\ f.userId = last.user

\* the extensions the claim accepts, as path.extname returns them
AcceptedExtensions == {<<".">> \o alt : alt \in AllowedTypes}

\* C10: an upload by an authenticated user is accepted exactly when the
\* declared name's extension is in the accepted set and the content is at most
\* 5 MiB: it is then answered 201 with a new File row that the uploader can
\* download at once; an extension outside the set is refused as a rejected
\* type and a larger content as too large.  (As claimed; the code does not satisfy it.)
C10_UploadAcceptedExactlyWhen ==
    [][(/\ last'.op = "upload"
        /\ last'.user # Null
        /\ last'.arg.present) =>
           LET part == last'.arg
               inSet == ToLowerCase(ExtName(part.originalname)) \in AcceptedExtensions
           IN  /\ (inSet /\ part.size <= FileSizeLimit) =>
                      /\ last'.status = 201
                      /\ last'.out # {}
                      /\ \A f \in last'.out : f \in files' /\ f \notin files
                      /\ \A u \in UserIds, id \in 1..MaxFiles :
                            (last'.user = u /\ \E f \in last'.out : f.id = id) =>
                                /\ DownloadResult(u, id)'.status = 200
                                /\ \A r \in DownloadResult(u, id)'.out :
                                      r.content = ContentOf(u)
               /\ ~inSet =>
                      /\ last'.status = 400
                      /\ last'.error = "Only images, PDFs, and documents allowed!"
               /\ (inSet /\ part.size > FileSizeLimit) =>
                      /\ last'.status = 400
                      /\ last'.error = "File too large. Maximum size is 5MB"]_vars

\* the answers of the object store's refusals
RejectedType == "Only images, PDFs, and documents allowed!"
TooLarge == "File too large. Maximum size is 5MB"

\* C11: an upload that the object store refuses (rejected type or too large)
\* creates no File row and leaves the stored content as it was: the File rows
\* and the content locations (and what they hold) are the same after the
\* refused upload as before it.  (As claimed; the removal of a refused part
\* that was written over an earlier upload's location does not satisfy it.)
C11_RefusedUploadLeavesNothing ==
    [][(/\ last'.op = "upload"
        /\ last'.status = 400
        /\ last'.error \in {RejectedType, TooLarge}) =>
           /\ files' = files
           /\ DOMAIN disk' = DOMAIN disk
           /\ disk' = disk]_vars

\* C12: content removal is idempotent: a delete of an own file whose content is
\* already absent does not fail at the content step, removes the File row and
\* is answered 200.
C12_DeleteWithoutContent ==
    [][\A f \in files :
          (/\ last'.op = "delete"
           /\ last'.user = f.userId
           /\ ParseInt(last'.arg.fileId) = f.id
           /\ ~ExistsSync(f.path)) =>
              /\ last'.status = 200
              /\ ~\E g \in files' : g.id = f.id
              /\ disk' = disk]_vars

\* C12 witness: a delete that found no content to remove was answered 200 and
\* the row is gone.
C12_Witness ==
    /\ last.op = "delete"
    /\ last.status = 200
    /\ last.out = {[unlinked |-> FALSE]}
    /\ ~\E g \in files : Numeral(g.id) = last.arg.fileId

\* C13: the sequence signup of a new user, upload of report.pdf (2 KB) as that
\* user, createFolder "Work", move of report.pdf into "Work", delete of
\* report.pdf succeeds at every step and ends in a state where the user's
\* listFiles is empty, listFolders shows "Work" with zero files and the
\* content location of report.pdf holds no content.  Step by step: each request
\* of the sequence, made where the sequence makes it, is answered as a success,
\* and the delete leaves the final state described.  (As claimed; the first
\* step fails on the code.)
C13_Scenario ==
    [][/\ (/\ last'.op = "signup"
           /\ ~UniqueViolation(last'.arg.username, last'.arg.email)) =>
              /\ last'.status = 201
              /\ \E u \in users' : /\ u.username = last'.arg.username
                                   /\ u.id = last'.out
       /\ (/\ last'.op = "upload"
           /\ last'.user # Null
           /\ last'.arg = FilePart(ReportPdf, MimePdf, 2048)) =>
              /\ last'.status = 201
              /\ \E f \in files' \ files : f.userId = last'.user
       /\ (/\ last'.op = "createFolder"
           /\ last'.user # Null
           /\ last'.arg = StringVal("Work")) =>
              /\ last'.status = 201
              /\ \E d \in folders' \ folders : d.userId = last'.user
       /\ \A f \in files, d \in folders :
             (/\ last'.op \in {"move", "delete"}
              /\ last'.user = f.userId
              /\ ParseInt(last'.arg.fileId) = f.id
              /\ f.name = ReportPdf
              /\ d.userId = f.userId
              /\ d.name = "Work") =>
                 /\ (/\ last'.op = "move"
                     /\ last'.arg.folderId = Numeral(d.id)) =>
                        /\ last'.status = 200
                        /\ \E g \in files' : g.id = f.id /\ g.folderId = d.id
                 /\ (/\ last'.op = "delete"
                     /\ {x \in files : x.folderId = d.id} = {f}
                     /\ FindManyFiles(f.userId) = {f}) =>
                        /\ last'.status = 200
                        /\ FindManyFiles(f.userId)' = {}
                        /\ \E g \in FindManyFolders(f.userId)' :
                              g.id = d.id /\ g.files = {}
                        /\ ~ExistsSync(f.path)']_vars

\* C14: the principal object of an authenticated request, and the one a
\* successful login returns, has the fields id, username and email and no
\* password field, hashed or plain.  (As claimed; the code does not satisfy
\* it.)
C14_PrincipalWithoutCredential ==
    /\ \A s \in Sessions : \A u \in Principal(s) :
          DOMAIN u = {"id", "username", "email"}
    /\ (last.op = "login" /\ last.status = 200) =>
          \A u \in last.out : DOMAIN u = {"id", "username", "email"}

\* C15: a failed login is answered the same whether the username does not
\* exist or the password is wrong: from any state, a login that fails for the
\* one reason and a login that fails for the other get identical answers and
\* leave identical states, in which the login has established no session.
C15_FailedLoginIndistinguishable ==
    \A s \in Sessions, a \in LoginInputs, b \in LoginInputs :
        (/\ Verify(a[1], a[2]).message = "User not found"
         /\ Verify(b[1], b[2]).message = "Wrong password") =>
            /\ LoginResult(s, a[1], a[2]) = LoginResult(s, b[1], b[2])
            /\ LoginResult(s, a[1], a[2]).status # 200
            /\ LoginResult(s, a[1], a[2]).sessionUser = sessionUser

\* C15 witness: a login with a wrong password for an existing username was
\* refused and the session is not authenticated.
C15_Witness ==
    /\ last.op = "login"
    /\ last.status = 401
    /\ Verify(last.arg.username, last.arg.password).message = "Wrong password"
    /\ ReqUser(last.sess) = Null
    /\ files # {}

\* C16: after a logout on a session, every later /api request on that session
\* is answered 401 until a new successful login on it, and a failed login
\* never makes a session authenticated: a logout leaves the session without a
\* user, a session without a user stays so through every step that is not a
\* successful login on it, and an /api request on such a session is answered
\* 401.
C16_LoggedOutUntilLogin ==
    [][\A s \in Sessions :
          /\ (last'.op = "logout" /\ last'.sess = s) => ReqUser(s)' = Null
          /\ (/\ ReqUser(s) = Null
              /\ ~(/\ last'.op = "login"
                   /\ last'.sess = s
                   /\ last'.status = 200)) => ReqUser(s)' = Null
          /\ (/\ ReqUser(s) = Null
              /\ last'.op \in ApiOps
              /\ last'.sess = s) =>
                 /\ last'.status = 401
                 /\ last'.error = "Not authenticated"]_vars

\* C16 witness: a session that had a user has logged out and has none now.
C16_Witness ==
    /\ last.op = "logout"
    /\ last.user # Null
    /\ ReqUser(last.sess) = Null

\* C17: GET /auth/me answers 200 with the current user's object when the
\* session is authenticated and 401 when it is not.  (As claimed; the code
\* has no such route.)
C17_CurrentPrincipal ==
    [][\A s \in Sessions :
          (last'.op = "me" /\ last'.sess = s) =>
              IF ReqUser(s) # Null
              THEN /\ last'.status = 200
                   /\ \E u \in last'.out : u.id = ReqUser(s)
              ELSE last'.status = 401]_vars

\* C18: createFolder requires a non-empty name: a call with an empty or
\* missing name fails and creates no Folder; a call with a non-empty name is
\* answered 201 and creates exactly one new Folder, owned by the caller, with
\* no files, also when a folder of that name exists.  (As claimed; the code
\* does not satisfy it.)
C18_FolderNameRequired ==
    [][(last'.op = "createFolder" /\ last'.user # Null) =>
          IF last'.arg.type # "string" \/ last'.arg.val = ""
          THEN /\ last'.status >= 400
               /\ folders' = folders
          ELSE /\ last'.status = 201
               /\ \E d \in folders' \ folders :
                     /\ folders' = folders \cup {d}
                     /\ d.userId = last'.user
                     /\ d.name = last'.arg.val
                     /\ \A f \in files' : f.folderId # d.id]_vars

\* C19: the owning user of a File never changes after its creation: in every
\* state the userId of every File row is the user who uploaded it, and no
\* step changes the userId of a row that stays.
C19_OwnerNeverChanges ==
    /\ [](\A f \in files :
             f.id \in DOMAIN uploader /\ f.userId = uploader[f.id])
    /\ [][\A f \in files, g \in files' :
             g.id = f.id => g.userId = f.userId]_vars

\* C19 witness: a file was moved into a folder of another user and is still
\* its uploader's.
C19_Witness ==
    /\ last.op = "move"
    /\ last.status = 200
    /\ \E f \in files, d \in folders :
          /\ Numeral(f.id) = last.arg.fileId
          /\ f.folderId = d.id
          /\ d.userId # f.userId
          /\ f.userId = uploader[f.id]

\* C20: while a delete is in flight no state can be observed in which the
\* File row still exists and the delete has already removed its content; and
\* when the removal of the row fails after the content was removed, no row
\* without content is left.  (As claimed; the handler removes the content
\* first and then awaits the removal of the row.)
C20_NoRowWithoutContent ==
    /\ \A r \in pending :
          (r.pc = "deleting" /\ r.unlinked) =>
              ~\E f \in files : f.id = r.file.id
    /\ (/\ last.op = "delete"
        /\ last.status = 500
        /\ last.out = {[unlinked |-> TRUE]}) =>
           ~\E f \in files : /\ Numeral(f.id) = last.arg.fileId
                              /\ ~ExistsSync(f.path)

\* C21: when the write of the File row fails after the content of an upload
\* was placed, the upload removes the content it placed: after an upload
\* answered 500 the location it wrote holds content only if a File row
\* references it.  (As claimed; the catch block of the handler removes
\* nothing.)
C21_FailedCreateRemovesContent ==
    [][(last'.op = "upload" /\ last'.status = 500) =>
          \A p \in DOMAIN disk' :
              p = StoragePath(now', last'.arg.originalname) =>
                  \E f \in files' : f.path = p]_vars

\* C22: a File row is created only after its content was placed: every row
\* that has just been created was created by an upload answered 201 and
\* references a location that holds content, and an upload whose write was
\* refused or failed creates no row.  (As claimed; between the write and the
\* creation of the row another request can empty the location when the
\* locations of two uploads coincide.)
C22_RowOnlyAfterContent ==
    [][/\ \A f \in files' \ files :
             /\ last'.op = "upload"
             /\ last'.status = 201
             /\ f.path \in DOMAIN disk'
       /\ (/\ last'.op = "upload"
           /\ last'.status = 400) => files' = files]_vars

\* C23: uploads with the same declared name, by the same or by different
\* users, also within one tick of the clock, are placed at distinct
\* locations: no two File rows share a storage location (so that no upload
\* overwrites another file's content and no delete removes it).  (As claimed;
\* the code does not satisfy it.)
C23_DistinctLocations ==
    \A f \in files, g \in files : f.id # g.id => f.path # g.path

\* C24: under any interleaving of two requests of the owner on the same file
\* (delete with delete, or move with delete) each request ends in success or
\* in 404 and in no other failure, and once both have finished neither the
\* row nor the content exists: a delete or a move of an own or a missing
\* file, with the database reachable and a target that is null, is answered
\* 200 or 404; and when no request is in flight, no deleted file has a row
\* and no location holds content without a row.  (As claimed; the request
\* that loses the race is answered 500.)
C24_RacingRequestsEndCleanly ==
    /\ [][(/\ last'.op \in {"delete", "move"}
           /\ last'.user # Null
           /\ ParseInt(last'.arg.fileId) # NaN
           /\ last'.error # "Can't reach database server"
           /\ last'.op = "move" => last'.arg.folderId = JsonNull) =>
              last'.status \in {200, 404}]_vars
    /\ [](pending = {} =>
             /\ \A id \in deleted : ~\E f \in files : f.id = id
             /\ \A p \in DOMAIN disk : \E f \in files : f.path = p)

\* C25: listFolders as P returns only folders owned by P, and every file
\* nested under a returned folder is owned by P: in every state, for every
\* user, the folders GET /api/folders selects are the user's and hold only
\* the user's files.  (As claimed; a move puts a file into any existing
\* folder.)
C25_ListFoldersIsolation ==
    \A u \in UserIds : \A g \in FindManyFolders(u) :
        /\ g.userId = u
        /\ \A x \in g.files : x.userId = u

====
